---- MODULE Spec2Model ----
(***************************************************************************)
(* Episode replay against a robot with an interactive command listener.    *)
(*                                                                         *)
(* Three replayers share one design and are modelled side by side:         *)
(*   "all"  - EpisodeReplayer          (lerobot/replay_all_episodes.py)    *)
(*   "real" - RealRobotEpisodeReplayer (lerobot/replay_with_real_robot.py) *)
(*   "demo" - EpisodeReplayer          (lerobot/demo_episode_replay.py)    *)
(*                                                                         *)
(* Two threads: the controller (run / replay_single_episode, position pc)  *)
(* and the daemon input listener (input_listener, position lpc).  The      *)
(* shared flags is_paused and should_stop are plain attributes; CPython    *)
(* reads and writes each of them atomically, so every read and every write *)
(* is one step.  The robot, the dataset and the operator are the           *)
(* environment: connect, dataset loads and send_action may raise, and the  *)
(* operator may type any line or close the stream at any read.             *)
(***************************************************************************)
EXTENDS Integers, Sequences, FiniteSets, TLC

\* Bounds of the model.
MaxEpisodes == 2     \* datasets hold 1..MaxEpisodes episodes
MaxFrames == 2       \* every episode holds 1..MaxFrames frames
MaxLines == 2        \* lines the operator types to the listener

\* end_episode "not given": -1 in DatasetReplayConfig, None in run(...).
NoEnd == -1

Variants == {"all", "real", "demo"}

\* Normalised operator lines (after strip().lower()).
Lines == {"q", "quit", "p", "pause", "n", "next", "s", "skip",
          "h", "help", "r", "reset", "", "x"}

VARIABLES
    variant,         \* which replayer runs
    totalEpisodes,   \* dataset.num_episodes
    numFrames,       \* episode_dataset.num_frames (same for every episode)
    cfgStart,        \* cfg.dataset.start_episode / run(start_episode)
    cfgEnd,          \* cfg.dataset.end_episode / run(end_episode)
    autoAdvance,     \* cfg.auto_advance / run(auto_advance)
    pc,              \* controller position
    episode_idx,     \* loop variable of run
    frame_idx,       \* loop variable of replay_single_episode
    end_episode,     \* resolved last episode
    robot,           \* self.robot is not None
    is_connected,    \* robot.is_connected
    is_paused,       \* self.is_paused
    should_stop,     \* self.should_stop
    lpc,             \* listener position
    eof,             \* the operator stream has reached end-of-input
    nLines,          \* lines read by the listener so far
    sent,            \* history: send_action calls begun by the controller, in order
    resets,          \* history: send_action calls begun by the listener, in order
    startedEps,      \* history: episodes handed to replay_single_episode
    disconnectCalls, \* history: robot.disconnect() calls
    cleanups,        \* history: executions of the finally block
    outcome,         \* summary printed by run
    failure,         \* history: first fatal condition met by the controller
    connectResult,   \* history: how robot.connect() ended
    lastPause,       \* history: (episode, frame) the pause loop last slept before
    lexit,           \* history: why the listener left its loop
    lexitAt,         \* history: where the controller was when Quit or Skip was read
    pausedSends,     \* history: frame sends begun since is_paused last became true
    fps,             \* dataset.fps
    clock,           \* time.perf_counter(), in ticks
    start_frame_t,   \* start_frame_t of the current frame
    dt_s,            \* dt_s measured for the last frame
    sleep_time,      \* time waited after the last frame
    cfg_fps,         \* cfg.dataset.fps
    pause_t,         \* history: time the current frame has spent in the pause loop
    work_t,          \* history: time the last frame's send and processing took
    confirm_line     \* what input() at the safety prompt has just returned

cfgVars == <<variant, totalEpisodes, numFrames, cfgStart, cfgEnd, autoAdvance>>
ctlVars == <<pc, episode_idx, frame_idx, end_episode>>
robotVars == <<robot, is_connected>>
flagVars == <<is_paused, should_stop>>
lstVars == <<lpc, eof, nLines, lexit>>
histVars == <<sent, resets, startedEps, disconnectCalls, cleanups, outcome, failure,
              connectResult, lastPause, lexitAt, pausedSends>>
timeVars == <<fps, clock, start_frame_t, dt_s, sleep_time, cfg_fps, pause_t, work_t>>
vars == <<cfgVars, ctlVars, robotVars, flagVars, lstVars, histVars, timeVars, confirm_line>>

\* The history of the run other than the two values below.
runHist == <<sent, resets, startedEps, disconnectCalls, cleanups, outcome, failure,
             connectResult, lastPause>>

NoPosition == <<"none", -1, -1>>

NoFailure == [kind |-> "none", ep |-> -1, fr |-> -1]

Fail(k, e, f) == IF failure.kind = "none" THEN [kind |-> k, ep |-> e, fr |-> f] ELSE failure

\* One send_action call as it begins.
SendEntry(kind, e, f) ==
    [kind |-> kind, ep |-> e, fr |-> f,
     stop |-> should_stop, disc |-> disconnectCalls > 0]

\* cmd = input().strip().lower() followed by the if/elif chain.
Command(line) ==
    IF line = "q" \/ line = "quit" THEN "Quit"
    ELSE IF line = "p" \/ line = "pause" THEN "Pause"
    ELSE IF line = "n" \/ line = "next" THEN "Next"
    ELSE IF line = "s" \/ line = "skip" THEN "Skip"
    ELSE IF line = "h" \/ line = "help" THEN "Help"
    ELSE IF (line = "r" \/ line = "reset") /\ variant = "real" THEN "Reset"
    ELSE "Unknown"

Min(a, b) == IF a < b THEN a ELSE b

\* The last episode of the range.
ResolveEnd ==
    CASE variant = "all" ->
            LET end_ep == IF cfgEnd >= 0 THEN cfgEnd ELSE totalEpisodes - 1
            IN  IF end_ep >= totalEpisodes THEN totalEpisodes - 1 ELSE end_ep
      [] variant = "real" ->
            IF cfgEnd = NoEnd THEN totalEpisodes - 1
            ELSE Min(cfgEnd, totalEpisodes - 1)
      [] OTHER -> totalEpisodes - 1

\* The two ValueErrors of setup_robot_and_dataset.
RangeRejected ==
    /\ variant = "all"
    /\ \/ cfgStart >= totalEpisodes
       \/ cfgStart > ResolveEnd

\* The state __init__ leaves, for the configuration chosen.
Constructed ==
    /\ pc = IF variant = "real" THEN "load" ELSE "connect"
    /\ episode_idx = cfgStart
    /\ frame_idx = 0
    /\ end_episode = NoEnd
    /\ robot = (variant = "demo")
    /\ is_connected = FALSE
    /\ is_paused = FALSE
    /\ should_stop = FALSE
    /\ lpc = "off"
    /\ eof = FALSE
    /\ nLines = 0
    /\ sent = <<>>
    /\ resets = <<>>
    /\ startedEps = <<>>
    /\ disconnectCalls = 0
    /\ cleanups = 0
    /\ outcome = "none"
    /\ failure = NoFailure
    /\ connectResult = "none"
    /\ lastPause = <<-1, -1>>
    /\ lexit = "none"
    /\ lexitAt = NoPosition
    /\ pausedSends = 0
    /\ fps = 1
    /\ clock = 0
    /\ start_frame_t = 0
    /\ dt_s = 0
    /\ sleep_time = 0
    /\ cfg_fps = 1
    /\ pause_t = 0
    /\ work_t = 0
    /\ confirm_line = "none"

Init ==
    /\ variant \in Variants
    /\ totalEpisodes \in 1..MaxEpisodes
    /\ numFrames \in 1..MaxFrames
    /\ IF variant = "demo"
       THEN cfgStart = 0 /\ cfgEnd = NoEnd /\ autoAdvance = TRUE
       ELSE /\ cfgStart \in 0..(MaxEpisodes - 1)
            /\ cfgEnd \in {NoEnd} \cup 0..(MaxEpisodes - 1)
            /\ autoAdvance \in BOOLEAN
    /\ Constructed

(***************************************************************************)
(* Controller: run and replay_single_episode                               *)
(***************************************************************************)

\* Where control goes when an exception leaves the try body of run.
Raised == "except"

\* Where control goes on "return" inside the try body of run.
Returned == "finally"

\* Mutation: the "if not self.robot.is_connected: raise" test is missing.
run_connect_unchecked ==
    /\ pc = "connect"
    /\ \E r \in {"ok", "silent", "raise", "nomake"} :
         /\ r = "nomake" => variant # "demo"
         /\ connectResult' = r
         /\ IF r \in {"ok", "silent"}
            THEN /\ robot' = TRUE
                 /\ is_connected' = (r = "ok")
                 /\ pc' = IF variant = "all" THEN "load" ELSE "range"
                 /\ UNCHANGED failure
            ELSE /\ robot' = IF r = "nomake" THEN FALSE ELSE TRUE
                 /\ is_connected' = FALSE
                 /\ pc' = IF variant = "real" THEN Returned ELSE Raised
                 /\ failure' = Fail("connect", -1, -1)
    /\ UNCHANGED <<cfgVars, timeVars, confirm_line, episode_idx, frame_idx, end_episode, flagVars, lstVars,
                   sent, startedEps, disconnectCalls, cleanups, outcome, lastPause, lexitAt, pausedSends, resets>>

\* make_robot_from_config + robot.connect() + the is_connected test.
run_connect ==
    /\ pc = "connect"
    /\ \E r \in {"ok", "silent", "raise", "nomake"} :
         /\ r = "nomake" => variant # "demo"
         /\ connectResult' = r
         /\ IF r = "ok"
            THEN /\ robot' = TRUE
                 /\ is_connected' = TRUE
                 /\ pc' = IF variant = "all" THEN "load" ELSE "range"
                 /\ UNCHANGED failure
            ELSE /\ robot' = IF r = "nomake" THEN FALSE ELSE TRUE
                 /\ is_connected' = FALSE
                 /\ pc' = IF variant = "real" THEN Returned ELSE Raised
                 /\ failure' = Fail("connect", -1, -1)
    /\ UNCHANGED <<cfgVars, timeVars, confirm_line, episode_idx, frame_idx, end_episode, flagVars, lstVars,
                   sent, startedEps, disconnectCalls, cleanups, outcome, lastPause, lexitAt, pausedSends, resets>>

\* LeRobotDataset(repo_id, root=...) for the whole dataset.
run_load ==
    /\ pc = "load"
    /\ \E ok \in BOOLEAN :
         IF ok
         THEN /\ pc' = IF variant = "real" THEN "connect" ELSE "range"
              /\ UNCHANGED failure
         ELSE /\ pc' = IF variant = "real" THEN Returned ELSE Raised
              /\ failure' = Fail("dataset", -1, -1)
    /\ UNCHANGED <<cfgVars, timeVars, confirm_line, episode_idx, frame_idx, end_episode, robotVars, flagVars,
                   lstVars, sent, startedEps, disconnectCalls, cleanups, outcome, connectResult, lastPause, lexitAt, pausedSends, resets>>

\* Mutation: the range is resolved but not validated.
run_range_unvalidated ==
    /\ pc = "range"
    /\ pc' = "listen"
    /\ episode_idx' = cfgStart
    /\ end_episode' = ResolveEnd
    /\ UNCHANGED <<cfgVars, timeVars, confirm_line, frame_idx, robotVars, flagVars, lstVars, histVars>>

\* Resolve and validate the episode range.
run_range ==
    /\ pc = "range"
    /\ IF RangeRejected
       THEN /\ pc' = Raised
            /\ failure' = Fail("range", -1, -1)
            /\ UNCHANGED <<episode_idx, end_episode>>
       ELSE /\ pc' = "listen"
            /\ episode_idx' = cfgStart
            /\ end_episode' = ResolveEnd
            /\ UNCHANGED failure
    /\ UNCHANGED <<cfgVars, timeVars, confirm_line, frame_idx, robotVars, flagVars, lstVars,
                   sent, startedEps, disconnectCalls, cleanups, outcome, connectResult, lastPause, lexitAt, pausedSends, resets>>

\* Mutation: "while True:" in place of "while not self.should_stop:".
ListenerLoop_forever(stop) == "read"

\* while not self.should_stop: evaluated when the loop is entered and after
\* each command.  Only the listener writes should_stop, so the test sees the
\* value the listener itself left and is taken together with the command.
ListenerLoop(stop) == IF stop THEN "exited" ELSE "read"

\* threading.Thread(target=input_listener, daemon=True).start()
start_input_listener ==
    /\ pc = "listen"
    /\ lpc' = ListenerLoop(should_stop)
    /\ pc' = "loopHead"
    /\ UNCHANGED <<cfgVars, timeVars, confirm_line, episode_idx, frame_idx, end_episode, robotVars, flagVars,
                   eof, nLines, lexit, histVars>>

\* Mutation: range(start, end) in place of range(start, end + 1).
run_loopHead_offByOne ==
    /\ pc = "loopHead"
    /\ IF episode_idx >= end_episode \/ should_stop
       THEN /\ pc' = "report"
            /\ UNCHANGED startedEps
       ELSE /\ pc' = "loadEpisode"
            /\ startedEps' = Append(startedEps, episode_idx)
    /\ UNCHANGED <<cfgVars, timeVars, confirm_line, episode_idx, frame_idx, end_episode, robotVars, flagVars,
                   lstVars, sent, disconnectCalls, cleanups, outcome, failure,
                   connectResult, lastPause, lexitAt, pausedSends, resets>>

\* for episode_idx in range(start, end + 1): if self.should_stop: break
run_loopHead ==
    /\ pc = "loopHead"
    /\ IF episode_idx > end_episode \/ should_stop
       THEN /\ pc' = "report"
            /\ UNCHANGED startedEps
       ELSE /\ pc' = "loadEpisode"
            /\ startedEps' = Append(startedEps, episode_idx)
    /\ UNCHANGED <<cfgVars, timeVars, confirm_line, episode_idx, frame_idx, end_episode, robotVars, flagVars,
                   lstVars, sent, disconnectCalls, cleanups, outcome, failure, connectResult, lastPause, lexitAt, pausedSends, resets>>

\* Load the episode: LeRobotDataset(..., episodes=[episode_idx]) / get_episode.
replay_loadEpisode ==
    /\ pc = "loadEpisode"
    /\ \E ok \in BOOLEAN :
         /\ ~ok => variant # "demo"
         /\ IF ok
            THEN /\ pc' = IF variant = "real" THEN "confirm" ELSE "frameHead"
                 /\ frame_idx' = 0
                 /\ UNCHANGED failure
            ELSE /\ pc' = Raised
                 /\ failure' = Fail("episodeLoad", episode_idx, -1)
                 /\ UNCHANGED frame_idx
    /\ UNCHANGED <<cfgVars, timeVars, confirm_line, episode_idx, end_episode, robotVars, flagVars, lstVars,
                   sent, startedEps, disconnectCalls, cleanups, outcome, connectResult, lastPause, lexitAt, pausedSends, resets>>

\* The safety prompt of RealRobotEpisodeReplayer: input() in the controller.
replay_confirm ==
    /\ pc = "confirm"
    /\ \/ /\ ~eof                       \* any line the operator types
          /\ \E line \in Lines : confirm_line' = Command(line)
          /\ pc' = "frameHead"
          /\ UNCHANGED <<eof, failure>>
       \/ /\ ~eof                       \* KeyboardInterrupt: return False
          /\ pc' = "report"
          /\ failure' = Fail("cancel", episode_idx, -1)
          /\ UNCHANGED <<eof, confirm_line>>
       \/ /\ pc' = Raised               \* EOFError is not caught here
          /\ eof' = TRUE
          /\ failure' = Fail("eofConfirm", episode_idx, -1)
          /\ UNCHANGED confirm_line
    /\ UNCHANGED <<cfgVars, timeVars, episode_idx, frame_idx, end_episode, robotVars, flagVars,
                   lpc, nLines, lexit, sent, startedEps, disconnectCalls, cleanups, outcome, connectResult, lastPause, lexitAt, pausedSends, resets>>

\* Mutation: range(num_frames - 1) in place of range(num_frames).
replay_frameHead_offByOne ==
    /\ pc = "frameHead"
    /\ pc' = IF frame_idx >= numFrames - 1 THEN "afterEpisode"
             ELSE IF should_stop THEN "report"
             ELSE "pauseWait"
    /\ confirm_line' = "none"
    /\ UNCHANGED <<cfgVars, timeVars, episode_idx, frame_idx, end_episode, robotVars, flagVars,
                   lstVars, histVars>>

\* for frame_idx in range(num_frames): if self.should_stop: return False
replay_frameHead ==
    /\ pc = "frameHead"
    /\ pc' = IF frame_idx >= numFrames THEN "afterEpisode"
             ELSE IF should_stop THEN "report"
             ELSE "pauseWait"
    /\ confirm_line' = "none"
    /\ UNCHANGED <<cfgVars, timeVars, episode_idx, frame_idx, end_episode, robotVars, flagVars,
                   lstVars, histVars>>

\* Mutation: the pause loop is missing.
replay_pauseWait_ignoresPause ==
    /\ pc = "pauseWait"
    /\ pc' = "stopRecheck"
    /\ UNCHANGED <<cfgVars, timeVars, confirm_line, episode_idx, frame_idx, end_episode, robotVars, flagVars,
                   lstVars, histVars>>

\* while self.is_paused and not self.should_stop:
replay_pauseWait ==
    /\ pc = "pauseWait"
    /\ pc' = IF is_paused /\ ~should_stop THEN "pauseSleep" ELSE "stopRecheck"
    /\ UNCHANGED <<cfgVars, timeVars, confirm_line, episode_idx, frame_idx, end_episode, robotVars, flagVars,
                   lstVars, histVars>>

\* Mutation: every poll tick of the pause loop consumes a frame.
replay_pauseSleep_advances ==
    /\ pc = "pauseSleep"
    /\ pc' = "frameHead"
    /\ frame_idx' = frame_idx + 1
    /\ lastPause' = <<episode_idx, frame_idx>>
    /\ UNCHANGED <<cfgVars, timeVars, confirm_line, episode_idx, end_episode, robotVars, flagVars,
                   lstVars, sent, startedEps, disconnectCalls, cleanups, outcome,
                   failure, connectResult, resets, lexitAt, pausedSends>>

\*     time.sleep(0.1)
replay_pauseSleep ==
    /\ pc = "pauseSleep"
    /\ pc' = "pauseWait"
    /\ lastPause' = <<episode_idx, frame_idx>>
    /\ UNCHANGED <<cfgVars, timeVars, confirm_line, episode_idx, frame_idx, end_episode, robotVars, flagVars,
                   lstVars, sent, startedEps, disconnectCalls, cleanups, outcome,
                   failure, connectResult, resets, lexitAt, pausedSends>>

\* Mutation: should_stop is not tested again after the pause loop.
replay_stopRecheck_missing ==
    /\ pc = "stopRecheck"
    /\ pc' = "send"
    /\ UNCHANGED <<cfgVars, timeVars, confirm_line, episode_idx, frame_idx, end_episode, robotVars, flagVars,
                   lstVars, histVars>>

\* if self.should_stop: return False
replay_stopRecheck ==
    /\ pc = "stopRecheck"
    /\ pc' = IF should_stop THEN "report" ELSE "send"
    /\ UNCHANGED <<cfgVars, timeVars, confirm_line, episode_idx, frame_idx, end_episode, robotVars, flagVars,
                   lstVars, histVars>>

\* self.robot.send_action(action) is entered.
replay_send ==
    /\ pc = "send"
    /\ sent' = Append(sent, SendEntry("frame", episode_idx, frame_idx))
    /\ pausedSends' = IF is_paused /\ ~should_stop THEN pausedSends + 1 ELSE pausedSends
    /\ pc' = "sending"
    /\ UNCHANGED <<cfgVars, timeVars, confirm_line, episode_idx, frame_idx, end_episode, robotVars, flagVars,
                   lstVars, startedEps, disconnectCalls, cleanups, outcome, failure,
                   connectResult, lastPause, lexitAt, resets>>

\* Mutation: the send error is printed and the frame loop goes on.
replay_sending_continues ==
    /\ pc = "sending"
    /\ \E ok \in BOOLEAN :
         /\ frame_idx' = frame_idx + 1
         /\ pc' = "frameHead"
         /\ failure' = IF ok THEN failure ELSE Fail("send", episode_idx, frame_idx)
    /\ UNCHANGED <<cfgVars, timeVars, confirm_line, episode_idx, end_episode, robotVars, flagVars, lstVars,
                   sent, startedEps, disconnectCalls, cleanups, outcome, connectResult, lastPause, lexitAt, pausedSends, resets>>

\* send_action returns (then busy_wait and the next iteration) or raises.
replay_sending ==
    /\ pc = "sending"
    /\ \E ok \in BOOLEAN :
         IF ok
         THEN /\ frame_idx' = frame_idx + 1
              /\ pc' = "frameHead"
              /\ UNCHANGED failure
         ELSE /\ pc' = IF variant = "real" THEN "report" ELSE Raised
              /\ failure' = Fail("send", episode_idx, frame_idx)
              /\ UNCHANGED frame_idx
    /\ UNCHANGED <<cfgVars, timeVars, confirm_line, episode_idx, end_episode, robotVars, flagVars, lstVars,
                   sent, startedEps, disconnectCalls, cleanups, outcome, connectResult, lastPause, lexitAt, pausedSends, resets>>

\* if episode_idx < end_episode and not self.should_stop:
run_afterEpisode ==
    /\ pc = "afterEpisode"
    /\ IF episode_idx < end_episode /\ ~should_stop
       THEN /\ pc' = IF variant = "demo" \/ autoAdvance THEN "delay" ELSE "advCheck"
            /\ UNCHANGED episode_idx
       ELSE /\ pc' = "loopHead"
            /\ episode_idx' = episode_idx + 1
    /\ UNCHANGED <<cfgVars, timeVars, confirm_line, frame_idx, end_episode, robotVars, flagVars, lstVars, histVars>>

\* time.sleep(episode_delay)
run_delay ==
    /\ pc = "delay"
    /\ pc' = "loopHead"
    /\ episode_idx' = episode_idx + 1
    /\ UNCHANGED <<cfgVars, timeVars, confirm_line, frame_idx, end_episode, robotVars, flagVars, lstVars, histVars>>

\* Mutation: the wait between episodes does not test should_stop.
run_advCheck_ignoresStop ==
    /\ pc = "advCheck"
    /\ pc' = "advSleep"
    /\ UNCHANGED <<cfgVars, timeVars, confirm_line, episode_idx, frame_idx, end_episode, robotVars, flagVars,
                   lstVars, histVars>>

\* while not self.should_stop:
run_advCheck ==
    /\ pc = "advCheck"
    /\ IF should_stop
       THEN /\ pc' = "loopHead"
            /\ episode_idx' = episode_idx + 1
       ELSE /\ pc' = "advSleep"
            /\ UNCHANGED episode_idx
    /\ UNCHANGED <<cfgVars, timeVars, confirm_line, frame_idx, end_episode, robotVars, flagVars, lstVars, histVars>>

\* Mutation: the wait between episodes ends after one sleep, paused or not.
run_advSleep_ignoresPause ==
    /\ pc = "advSleep"
    /\ pc' = "loopHead"
    /\ episode_idx' = episode_idx + 1
    /\ UNCHANGED <<cfgVars, timeVars, confirm_line, frame_idx, end_episode, robotVars, flagVars, lstVars, histVars>>

\*     time.sleep(0.1); if not self.is_paused: break
run_advSleep ==
    /\ pc = "advSleep"
    /\ IF ~is_paused
       THEN /\ pc' = "loopHead"
            /\ episode_idx' = episode_idx + 1
       ELSE /\ pc' = "advCheck"
            /\ UNCHANGED episode_idx
    /\ UNCHANGED <<cfgVars, timeVars, confirm_line, frame_idx, end_episode, robotVars, flagVars, lstVars, histVars>>

\* Mutation: the flags are reset once the summary is printed.
run_report_clearsStop ==
    /\ pc = "report"
    /\ outcome' = IF ~should_stop THEN "Completed" ELSE "Stopped"
    /\ should_stop' = FALSE
    /\ pc' = "finally"
    /\ UNCHANGED <<cfgVars, timeVars, confirm_line, episode_idx, frame_idx, end_episode, robotVars, is_paused,
                   lstVars, sent, startedEps, disconnectCalls, cleanups, failure,
                   connectResult, lastPause, lexitAt, pausedSends, resets>>

\* The summary after the episode loop.
run_report ==
    /\ pc = "report"
    /\ outcome' = IF ~should_stop THEN "Completed" ELSE "Stopped"
    /\ pc' = "finally"
    /\ UNCHANGED <<cfgVars, timeVars, confirm_line, episode_idx, frame_idx, end_episode, robotVars, flagVars,
                   lstVars, sent, startedEps, disconnectCalls, cleanups, failure, connectResult, lastPause, lexitAt, pausedSends, resets>>

\* except Exception as e: print("Error during replay")
run_except ==
    /\ pc = "except"
    /\ outcome' = "Error"
    /\ pc' = "finally"
    /\ UNCHANGED <<cfgVars, timeVars, confirm_line, episode_idx, frame_idx, end_episode, robotVars, flagVars,
                   lstVars, sent, startedEps, disconnectCalls, cleanups, failure, connectResult, lastPause, lexitAt, pausedSends, resets>>

\* Mutation: the disconnect sits at the end of the try body, not in finally.
run_finally_notOnError ==
    /\ pc = "finally"
    /\ cleanups' = cleanups + 1
    /\ pc' = IF robot /\ is_connected /\ outcome # "Error"
             THEN (IF variant = "real" THEN "homeSend" ELSE "disconnect")
             ELSE "done"
    /\ UNCHANGED <<cfgVars, timeVars, confirm_line, episode_idx, frame_idx, end_episode, robotVars, flagVars,
                   lstVars, sent, startedEps, disconnectCalls, outcome, failure,
                   connectResult, lastPause, lexitAt, pausedSends, resets>>

\* finally: if self.robot and self.robot.is_connected:
run_finally ==
    /\ pc = "finally"
    /\ cleanups' = cleanups + 1
    /\ pc' = IF robot /\ is_connected
             THEN (IF variant = "real" THEN "homeSend" ELSE "disconnect")
             ELSE "done"
    /\ UNCHANGED <<cfgVars, timeVars, confirm_line, episode_idx, frame_idx, end_episode, robotVars, flagVars,
                   lstVars, sent, startedEps, disconnectCalls, outcome, failure, connectResult, lastPause, lexitAt, pausedSends, resets>>

\* reset_robot() called by the finally block: send_action(home_action) is entered.
run_homeSend ==
    /\ pc = "homeSend"
    /\ sent' = Append(sent, SendEntry("home", -1, -1))
    /\ pc' = "homeSending"
    /\ UNCHANGED <<cfgVars, timeVars, confirm_line, episode_idx, frame_idx, end_episode, robotVars, flagVars,
                   lstVars, startedEps, disconnectCalls, cleanups, outcome, failure, connectResult, lastPause, lexitAt, pausedSends, resets>>

\* Mutation: an error of the home-position send leaves the finally block
\* before the disconnect.
run_homeSending_failSkipsDisconnect ==
    /\ pc = "homeSending"
    /\ \E ok \in BOOLEAN : pc' = IF ok THEN "disconnect" ELSE "done"
    /\ UNCHANGED <<cfgVars, timeVars, confirm_line, episode_idx, frame_idx, end_episode, robotVars, flagVars,
                   lstVars, histVars>>

\* ... it returns (sleep 2 s) or raises (caught inside reset_robot).
run_homeSending ==
    /\ pc = "homeSending"
    /\ \E ok \in BOOLEAN : pc' = "disconnect"
    /\ UNCHANGED <<cfgVars, timeVars, confirm_line, episode_idx, frame_idx, end_episode, robotVars, flagVars,
                   lstVars, histVars>>

\* self.robot.disconnect()
run_disconnect ==
    /\ pc = "disconnect"
    /\ disconnectCalls' = disconnectCalls + 1
    /\ is_connected' = FALSE
    /\ pc' = "done"
    /\ UNCHANGED <<cfgVars, timeVars, confirm_line, episode_idx, frame_idx, end_episode, robot, flagVars,
                   lstVars, sent, startedEps, cleanups, outcome, failure, connectResult, lastPause, lexitAt, pausedSends, resets>>

(***************************************************************************)
(* Listener: input_listener                                                *)
(***************************************************************************)

\* self.current_episode: assigned the start episode in __init__ and again,
\* with the same value, at the end of setup_robot_and_dataset; the replay
\* loop iterates a local episode_idx and assigns the field nowhere.  The
\* other replayers set it to 0 once.
current_episode == IF variant = "all" THEN cfgStart ELSE 0

\* Where the controller is: waiting in the pause loop of a frame, elsewhere
\* in the frame loop, in the wait for the operator between two episodes, or
\* elsewhere between episodes.
Position ==
    <<IF pc \in {"pauseWait", "pauseSleep"} THEN "pausing"
      ELSE IF pc \in {"frameHead", "stopRecheck", "send", "sending"} THEN "playing"
      ELSE IF pc \in {"advCheck", "advSleep"} THEN "waiting"
      ELSE "between",
      episode_idx, frame_idx>>

\* Mutation: Pause only ever sets the flag.
TogglePaused_sets(p) == TRUE

\* self.is_paused = not self.is_paused
TogglePaused(p) == ~p

\* The frame the playback loop is at while later frames of its episode are
\* still to be played.
Unplayed ==
    IF Position[1] \in {"pausing", "playing"} /\ frame_idx < numFrames - 1
    THEN <<"playing", episode_idx, frame_idx>>
    ELSE NoPosition

\* The listener reads one line that parses to command c.
ReadsCommand(c) ==
    /\ lpc = "read"
    /\ ~eof
    /\ nLines < MaxLines
    /\ \E line \in Lines : Command(line) = c
    /\ nLines' = nLines + 1

\* Mutation: Quit also resumes a paused replay.
input_quit_unpauses ==
    /\ ReadsCommand("Quit")
    /\ should_stop' = TRUE
    /\ is_paused' = FALSE
    /\ lpc' = ListenerLoop(should_stop')
    /\ lexit' = IF lpc' = "exited" THEN "stop" ELSE lexit
    /\ lexitAt' = Position
    /\ UNCHANGED <<cfgVars, timeVars, confirm_line, ctlVars, robotVars, eof, runHist, pausedSends>>

\* 'q' / 'quit'
input_quit ==
    /\ ReadsCommand("Quit")
    /\ should_stop' = TRUE
    /\ lpc' = ListenerLoop(should_stop')
    /\ lexit' = IF lpc' = "exited" THEN "stop" ELSE lexit
    /\ lexitAt' = Position
    /\ UNCHANGED <<cfgVars, timeVars, confirm_line, ctlVars, robotVars, is_paused, eof, runHist, pausedSends>>

\* 'p' / 'pause'
input_pause ==
    /\ ReadsCommand("Pause")
    /\ is_paused' = TogglePaused(is_paused)
    /\ pausedSends' = 0
    /\ lpc' = ListenerLoop(should_stop)
    /\ UNCHANGED <<cfgVars, timeVars, confirm_line, ctlVars, robotVars, should_stop, eof, lexit, runHist, lexitAt>>

\* Mutation: Next also moves the replay on to the next episode.
input_next_advances ==
    /\ ReadsCommand("Next")
    /\ is_paused' = IF is_paused THEN FALSE ELSE is_paused
    /\ pausedSends' = IF is_paused THEN 0 ELSE pausedSends
    /\ episode_idx' = IF episode_idx < end_episode THEN episode_idx + 1 ELSE episode_idx
    /\ lpc' = ListenerLoop(should_stop)
    /\ UNCHANGED <<cfgVars, timeVars, confirm_line, pc, frame_idx, end_episode, robotVars, should_stop,
                   eof, lexit, runHist, lexitAt>>

\* 'n' / 'next'
input_next ==
    /\ ReadsCommand("Next")
    /\ is_paused' = IF is_paused THEN FALSE ELSE is_paused
    /\ pausedSends' = IF is_paused THEN 0 ELSE pausedSends
    /\ lpc' = ListenerLoop(should_stop)
    /\ UNCHANGED <<cfgVars, timeVars, confirm_line, ctlVars, robotVars, should_stop, eof, lexit, runHist, lexitAt>>

\* Mutation: Skip has no break; the listener goes on reading.
input_skip_continues ==
    /\ ReadsCommand("Skip")
    /\ lpc' = ListenerLoop(should_stop)
    /\ lexit' = "skip"
    /\ lexitAt' = Unplayed
    /\ UNCHANGED <<cfgVars, timeVars, confirm_line, ctlVars, robotVars, flagVars, eof, runHist, pausedSends>>

\* 's' / 'skip': break
input_skip ==
    /\ ReadsCommand("Skip")
    /\ lpc' = "exited"
    /\ lexit' = "skip"
    /\ lexitAt' = Unplayed
    /\ UNCHANGED <<cfgVars, timeVars, confirm_line, ctlVars, robotVars, flagVars, eof, runHist, pausedSends>>

\* 'h' / 'help'
input_help ==
    /\ ReadsCommand("Help")
    /\ lpc' = ListenerLoop(should_stop)
    /\ UNCHANGED <<cfgVars, timeVars, confirm_line, ctlVars, robotVars, flagVars, eof, lexit, histVars>>

\* Mutation: an unrecognised line ends the listener.
input_unknown_exits ==
    /\ ReadsCommand("Unknown")
    /\ lpc' = "exited"
    /\ UNCHANGED <<cfgVars, timeVars, confirm_line, ctlVars, robotVars, flagVars, eof, lexit, histVars>>

\* any other line
input_unknown ==
    /\ ReadsCommand("Unknown")
    /\ lpc' = ListenerLoop(should_stop)
    /\ UNCHANGED <<cfgVars, timeVars, confirm_line, ctlVars, robotVars, flagVars, eof, lexit, histVars>>

\* 'r' / 'reset' (RealRobotEpisodeReplayer): reset_robot() enters send_action.
input_reset ==
    /\ ReadsCommand("Reset")
    /\ resets' = Append(resets, SendEntry("reset", -1, -1))
    /\ lpc' = "resetSending"
    /\ UNCHANGED <<cfgVars, timeVars, confirm_line, ctlVars, robotVars, flagVars, eof, lexit, sent,
                   startedEps, disconnectCalls, cleanups, outcome, failure,
                   connectResult, lastPause, lexitAt, pausedSends>>

\* ... it returns (sleep 2 s, then back to the listener's loop) or raises
\* into the handler inside reset_robot.
reset_robot_done ==
    /\ lpc = "resetSending"
    /\ \E ok \in BOOLEAN :
          lpc' = IF ok THEN ListenerLoop(should_stop) ELSE "resetFailed"
    /\ UNCHANGED <<cfgVars, timeVars, confirm_line, ctlVars, robotVars, flagVars, eof, nLines, lexit, histVars>>

\* Mutation: reset_robot has no handler; the exception ends the listener.
reset_robot_except_escapes ==
    /\ lpc = "resetFailed"
    /\ lpc' = "exited"
    /\ UNCHANGED <<cfgVars, timeVars, confirm_line, ctlVars, robotVars, flagVars, eof, nLines, lexit, histVars>>

\* except Exception as e: print(...); reset_robot returns to the listener.
reset_robot_except ==
    /\ lpc = "resetFailed"
    /\ lpc' = ListenerLoop(should_stop)
    /\ UNCHANGED <<cfgVars, timeVars, confirm_line, ctlVars, robotVars, flagVars, eof, nLines, lexit, histVars>>

\* Mutation: end-of-input is handled like KeyboardInterrupt.
input_eof_stops ==
    /\ lpc = "read"
    /\ eof' = TRUE
    /\ should_stop' = TRUE
    /\ lpc' = "exited"
    /\ lexit' = "eof"
    /\ UNCHANGED <<cfgVars, timeVars, confirm_line, ctlVars, robotVars, is_paused, nLines, histVars>>

\* except EOFError: break
input_eof ==
    /\ lpc = "read"
    /\ eof' = TRUE
    /\ lpc' = "exited"
    /\ lexit' = "eof"
    /\ UNCHANGED <<cfgVars, timeVars, confirm_line, ctlVars, robotVars, flagVars, nLines, histVars>>

Controller ==
    \/ run_connect \/ run_load \/ run_range \/ start_input_listener
    \/ run_loopHead \/ replay_loadEpisode \/ replay_confirm
    \/ replay_frameHead \/ replay_pauseWait \/ replay_pauseSleep
    \/ replay_stopRecheck \/ replay_send \/ replay_sending
    \/ run_afterEpisode \/ run_delay \/ run_advCheck \/ run_advSleep
    \/ run_report \/ run_except \/ run_finally
    \/ run_homeSend \/ run_homeSending \/ run_disconnect

Listener ==
    \/ input_quit \/ input_pause \/ input_next \/ input_skip
    \/ input_help \/ input_unknown \/ input_reset \/ reset_robot_done \/ reset_robot_except
    \/ input_eof

Next == Controller \/ Listener

Spec == Init /\ [][Next]_vars

\* Every controller step that does not wait for the operator: the main thread
\* keeps running, and every send, sleep and load call returns.
ControllerInternal ==
    \/ run_connect \/ run_load \/ run_range \/ start_input_listener
    \/ run_loopHead \/ replay_loadEpisode
    \/ replay_frameHead \/ replay_pauseWait \/ replay_pauseSleep
    \/ replay_stopRecheck \/ replay_send \/ replay_sending
    \/ run_afterEpisode \/ run_delay \/ run_advCheck \/ run_advSleep
    \/ run_report \/ run_except \/ run_finally
    \/ run_homeSend \/ run_homeSending \/ run_disconnect

\* Runs of replay_all_episodes in every configuration; the other two
\* replayers in their smallest one (one episode of one frame).
FairInit ==
    /\ Init
    /\ variant # "all" =>
          /\ totalEpisodes = 1 /\ numFrames = 1
          /\ cfgStart = 0 /\ cfgEnd = NoEnd /\ autoAdvance

FairSpec == FairInit /\ [][Next]_vars /\ WF_vars(ControllerInternal)

\* Runs of replay_all_episodes with every start_episode the int option
\* accepts, a negative one included; the other two replayers in their
\* smallest configuration.
RangeInit ==
    /\ variant \in Variants
    /\ IF variant = "all"
       THEN /\ totalEpisodes \in 1..MaxEpisodes
            /\ numFrames \in 1..MaxFrames
            /\ cfgStart \in -1..(MaxEpisodes - 1)
            /\ cfgEnd \in {NoEnd} \cup 0..(MaxEpisodes - 1)
            /\ autoAdvance \in BOOLEAN
       ELSE /\ totalEpisodes = 1 /\ numFrames = 1
            /\ cfgStart = 0 /\ cfgEnd = NoEnd /\ autoAdvance = TRUE
    /\ Constructed

RangeSpec == RangeInit /\ [][Next]_vars

(***************************************************************************)
(* Frame timing: "Maintain timing" at the end of each frame iteration      *)
(***************************************************************************)

\* Bound of the timing runs.
MaxElapsed == 4      \* one frame's send and processing take 0..MaxElapsed ticks

\* Ticks of time.perf_counter() in one second.
TicksPerSecond == 6

\* dataset.fps
FpsValues == {1, 2, 3}

\* The replayers that pace their frames, with replay_moving_tape_dataset.py.
TimedVariants == Variants \cup {"tape"}

Max(a, b) == IF a > b THEN a ELSE b

\* 1 / self.dataset.fps
TargetPeriod(f) == TicksPerSecond \div f

\* Mutation: the difference is passed to time.sleep as it is.
SleepTime_unclamped(f, dt) == TargetPeriod(f) - dt

\* sleep_time = max(1 / self.dataset.fps - dt_s, 0)
SleepTime(f, dt) == Max(TargetPeriod(f) - dt, 0)

\* busy_wait(seconds) of lerobot.utils.robot_utils: the time it waits.
busy_wait(seconds) == IF seconds > 0 THEN seconds ELSE 0

\* The time waited at the end of a frame iteration.
FrameDelay(v, f, dt) ==
    IF v \in {"demo", "tape"} THEN SleepTime(f, dt)
    ELSE busy_wait(TargetPeriod(f) - dt)

\* One episode of one replayer, alone with the clock.
TimingInit ==
    /\ variant \in TimedVariants
    /\ totalEpisodes = 1
    /\ numFrames \in 1..MaxFrames
    /\ cfgStart = 0 /\ cfgEnd = NoEnd /\ autoAdvance = TRUE
    /\ pc = "frameStart"
    /\ episode_idx = 0
    /\ frame_idx = 0
    /\ end_episode = 0
    /\ robot = TRUE
    /\ is_connected = TRUE
    /\ is_paused = FALSE
    /\ should_stop = FALSE
    /\ lpc = "off"
    /\ eof = FALSE
    /\ nLines = 0
    /\ sent = <<>>
    /\ resets = <<>>
    /\ startedEps = <<0>>
    /\ disconnectCalls = 0
    /\ cleanups = 0
    /\ outcome = "none"
    /\ failure = NoFailure
    /\ connectResult = "ok"
    /\ lastPause = <<-1, -1>>
    /\ lexit = "none"
    /\ lexitAt = NoPosition
    /\ pausedSends = 0
    /\ fps \in FpsValues
    /\ clock = 0
    /\ start_frame_t = 0
    /\ dt_s = 0
    /\ sleep_time = 0
    /\ cfg_fps \in IF variant = "all" THEN FpsValues ELSE {fps}
    /\ pause_t = 0
    /\ work_t = 0
    /\ confirm_line = "none"

\* Mutation: start_frame_t is taken at the top of the iteration, before the
\* pause loop.
timing_start_beforePause ==
    /\ pc = "frameStart"
    /\ ~is_paused
    /\ start_frame_t' = clock - pause_t
    /\ pc' = "frameWork"
    /\ UNCHANGED <<cfgVars, episode_idx, frame_idx, end_episode, robotVars, flagVars,
                   lstVars, histVars, fps, clock, dt_s, sleep_time, cfg_fps, pause_t, work_t, confirm_line>>

\* The pause loop is over (is_paused is false):
\* start_frame_t = time.perf_counter()
timing_start ==
    /\ pc = "frameStart"
    /\ ~is_paused
    /\ start_frame_t' = clock
    /\ pc' = "frameWork"
    /\ UNCHANGED <<cfgVars, episode_idx, frame_idx, end_episode, robotVars, flagVars,
                   lstVars, histVars, fps, clock, dt_s, sleep_time, cfg_fps, pause_t, work_t, confirm_line>>

\* The action is built and sent (or displayed); this takes d ticks.
timing_work ==
    /\ pc = "frameWork"
    /\ \E d \in 0..MaxElapsed : clock' = clock + d /\ work_t' = d
    /\ pc' = "frameWait"
    /\ UNCHANGED <<cfgVars, episode_idx, frame_idx, end_episode, robotVars, flagVars,
                   lstVars, histVars, fps, start_frame_t, dt_s, sleep_time, cfg_fps, pause_t, confirm_line>>

\* dt_s = time.perf_counter() - start_frame_t, then the wait, then the next
\* iteration of "for frame_idx in range(num_frames)".
timing_wait ==
    /\ pc = "frameWait"
    /\ dt_s' = clock - start_frame_t
    /\ sleep_time' = FrameDelay(variant, fps, dt_s')
    /\ clock' = clock + sleep_time'
    /\ frame_idx' = frame_idx + 1
    /\ pc' = IF frame_idx' < numFrames THEN "frameStart" ELSE "afterEpisode"
    /\ pause_t' = 0
    /\ UNCHANGED <<cfgVars, episode_idx, end_episode, robotVars, flagVars,
                   lstVars, histVars, fps, start_frame_t, cfg_fps, work_t, confirm_line>>

TimingNext == timing_start \/ timing_work \/ timing_wait

TimingSpec == TimingInit /\ [][TimingNext]_vars

\* Bound of the paused timing runs.
MaxPause == 2        \* a frame spends at most MaxPause ticks in the pause loop

\* time.sleep(0.1) in the pause loop, in whole ticks.
PollTicks == 1

\* The listener processes a Pause command while the episode plays.
timing_pause ==
    /\ nLines < MaxLines
    /\ pc # "afterEpisode"
    /\ nLines' = nLines + 1
    /\ is_paused' = TogglePaused(is_paused)
    /\ UNCHANGED <<cfgVars, ctlVars, robotVars, should_stop, lpc, eof, lexit, histVars, timeVars, confirm_line>>

\* while self.is_paused and not self.should_stop: time.sleep(0.1)
timing_pauseSleep ==
    /\ pc = "frameStart"
    /\ is_paused /\ ~should_stop
    /\ pause_t < MaxPause
    /\ clock' = clock + PollTicks
    /\ pause_t' = pause_t + PollTicks
    /\ lastPause' = <<episode_idx, frame_idx>>
    /\ UNCHANGED <<cfgVars, ctlVars, robotVars, flagVars, lstVars,
                   sent, resets, startedEps, disconnectCalls, cleanups, outcome, failure,
                   connectResult, lexitAt, pausedSends,
                   fps, start_frame_t, dt_s, sleep_time, cfg_fps, work_t, confirm_line>>

PausedTimingNext == TimingNext \/ timing_pause \/ timing_pauseSleep

\* One episode of one replayer with the clock and an operator who pauses.
PausedTimingSpec == TimingInit /\ [][PausedTimingNext]_vars

TypeOK ==
    /\ variant \in Variants
    /\ pc \in {"connect", "load", "range", "listen", "loopHead", "loadEpisode",
               "confirm", "frameHead", "pauseWait", "pauseSleep", "stopRecheck",
               "send", "sending", "afterEpisode", "delay", "advCheck", "advSleep",
               "report", "except", "finally", "homeSend", "homeSending",
               "disconnect", "done"}
    /\ lpc \in {"off", "read", "resetSending", "resetFailed", "exited"}
    /\ is_paused \in BOOLEAN /\ should_stop \in BOOLEAN
    /\ outcome \in {"none", "Completed", "Stopped", "Error"}

(***************************************************************************)
(* Properties                                                              *)
(***************************************************************************)

\* run() has returned.
RunReturned == pc = "done"

IsPrefix(a, b) == Len(a) <= Len(b) /\ \A i \in 1..Len(a) : a[i] = b[i]

\* <<s, s+1, ..., e>>
EpisodeRange(s, e) == [i \in 1..(IF e >= s THEN e - s + 1 ELSE 0) |-> s + i - 1]

\* <<(s,0), ..., (s,F-1), (s+1,0), ..., (e,F-1)>>
LexOrder(s, e, F) ==
    [i \in 1..((IF e >= s THEN e - s + 1 ELSE 0) * F) |->
        <<s + ((i - 1) \div F), (i - 1) % F>>]

IsFrame(x) == x.kind = "frame"

\* The (episode, frame) pairs sent by the playback loop, in order.
FramePairs ==
    LET fs == SelectSeq(sent, IsFrame)
    IN  [i \in 1..Len(fs) |-> <<fs[i].ep, fs[i].fr>>]

\* Controller sends begun while should_stop was already true.
SentAfterStop == {i \in DOMAIN sent : sent[i].stop}

\* C1: after a successful connect, every way out of run() has called
\* robot.disconnect() exactly once, and it is never called twice.
C1_DisconnectExactlyOnce ==
    /\ disconnectCalls <= 1
    /\ (RunReturned /\ connectResult = "ok") => disconnectCalls = 1

C1_Witness ==
    /\ RunReturned
    /\ connectResult = "ok"
    /\ failure.kind \in {"send", "episodeLoad", "dataset", "range"}
    /\ disconnectCalls = 1

\* C2: a failed send on frame f of episode e is the last frame the playback
\* loop ever sends (no retry, no later frame, no later episode), and the run
\* still disconnects exactly once.
C2_SendFailureHaltsRun ==
    failure.kind = "send" =>
        LET fp == FramePairs
        IN  /\ Len(fp) > 0
            /\ fp[Len(fp)] = <<failure.ep, failure.fr>>
            /\ \A i \in 1..(Len(fp) - 1) : fp[i] # <<failure.ep, failure.fr>>
            /\ startedEps # <<>> /\ startedEps[Len(startedEps)] = failure.ep
            /\ pc \notin {"send", "sending", "loadEpisode"}
            /\ RunReturned => disconnectCalls = 1

C2_Witness ==
    /\ failure.kind = "send"
    /\ failure.ep < end_episode
    /\ failure.fr < numFrames - 1
    /\ RunReturned
    /\ disconnectCalls = 1

\* C3: in RealRobotEpisodeReplayer a send failure without Quit is never
\* summarised as Completed (nor as StoppedByUser); Completed is printed only
\* when every episode of the range was played without stop or failure.
C3_FailedSendNotCompleted ==
    (variant = "real" /\ failure.kind = "send" /\ ~should_stop /\ outcome # "none") =>
        outcome \notin {"Completed", "Stopped"}

\* C4 as stated: no send_action call begins while should_stop is true.
C4_NoSendAfterStop ==
    /\ SentAfterStop = {}
    /\ \A i \in DOMAIN resets : ~resets[i].stop

\* C4 amended: after should_stop became true the playback loop begins at
\* most one more frame send, the listener begins none, and the only other
\* send is the single home-position send of RealRobotEpisodeReplayer's cleanup.
C4_AtMostOneFrameAfterStop ==
    /\ Cardinality({i \in SentAfterStop : sent[i].kind = "frame"}) <= 1
    /\ Cardinality({i \in SentAfterStop : sent[i].kind = "home"}) <= 1
    /\ \A i \in SentAfterStop : sent[i].kind = "home" => variant = "real"
    /\ \A i \in DOMAIN resets : ~resets[i].stop

C4_Witness ==
    /\ RunReturned
    /\ variant = "real"
    /\ \E i, j \in SentAfterStop : sent[i].kind = "frame" /\ sent[j].kind = "home"

\* C5: should_stop never goes back from true to false.
C5_StopMonotonic == [][should_stop => should_stop']_vars

C5_Witness ==
    /\ should_stop
    /\ RunReturned
    /\ outcome = "Stopped"

\* C6: when connecting fails (connect raises, the robot cannot be made, or
\* it reports not connected), no episode is entered, nothing is sent, the
\* listener is never started, the finally block still runs once, and
\* disconnect is never called.
C6_ConnectFailureSkipsRun ==
    connectResult \in {"silent", "raise", "nomake"} =>
        /\ startedEps = <<>>
        /\ sent = <<>>
        /\ resets = <<>>
        /\ lpc = "off"
        /\ disconnectCalls = 0
        /\ pc \in {"except", "finally", "done"}
        /\ RunReturned => cleanups = 1

C6_Witness ==
    /\ connectResult = "silent"
    /\ RunReturned
    /\ cleanups = 1
    /\ disconnectCalls = 0

\* The configured range is valid: start <= end < episode count (the demo
\* replayer always plays 0 .. num_episodes - 1).
ValidRange ==
    \/ variant = "demo"
    \/ cfgEnd # NoEnd /\ cfgStart <= cfgEnd /\ cfgEnd < totalEpisodes

ConfiguredEnd == IF variant = "demo" THEN totalEpisodes - 1 ELSE cfgEnd

\* The run met no stop and no failure.
CleanRun == failure.kind = "none" /\ ~should_stop

\* C7: for a valid range the episodes started are always an initial part of
\* start, start+1, ..., end, and a run that returns without stop or failure
\* has started exactly these, whatever commands were interleaved.
C7_EpisodeOrder ==
    ValidRange =>
        /\ IsPrefix(startedEps, EpisodeRange(cfgStart, ConfiguredEnd))
        /\ (RunReturned /\ CleanRun) => startedEps = EpisodeRange(cfgStart, ConfiguredEnd)

C7_Witness ==
    /\ ValidRange
    /\ variant = "all"
    /\ ~autoAdvance
    /\ RunReturned
    /\ CleanRun
    /\ nLines = MaxLines
    /\ lastPause[1] = 0
    /\ startedEps = <<0, 1>>

\* C8: with no operator input and auto-advance, a run without failures
\* sends exactly the frames of the range in (episode, frame) order and
\* nothing else, reports Completed, and disconnects once, after every send.
C8_ScenarioA ==
    (/\ variant \in {"all", "demo"}
     /\ autoAdvance
     /\ nLines = 0
     /\ failure.kind = "none"
     /\ RunReturned) =>
        /\ FramePairs = LexOrder(cfgStart, ResolveEnd, numFrames)
        /\ Len(sent) = (ResolveEnd - cfgStart + 1) * numFrames
        /\ outcome = "Completed"
        /\ disconnectCalls = 1
        /\ \A i \in DOMAIN sent : ~sent[i].disc

C8_Witness ==
    /\ variant = "all"
    /\ autoAdvance
    /\ nLines = 0
    /\ failure.kind = "none"
    /\ RunReturned
    /\ Len(sent) = MaxEpisodes * MaxFrames

\* Frames of episode e sent so far, in order.
FramesOf(e) ==
    LET IsOfE(p) == p[1] = e
        ps == SelectSeq(FramePairs, IsOfE)
    IN  [i \in 1..Len(ps) |-> ps[i][2]]

InFrameLoop == pc \in {"frameHead", "pauseWait", "pauseSleep", "stopRecheck", "send"}

\* C9: pausing and resuming neither repeat nor skip a frame: the frames sent
\* are always an initial part of the (episode, frame) order, inside the frame
\* loop exactly the frames 0 .. frame_idx-1 of the episode have been sent (so
\* the frame pending at a pause is the next one sent), and an episode that
\* completes has sent each of its frames once.
C9_PauseNoDupNoSkip ==
    /\ IsPrefix(FramePairs, LexOrder(cfgStart, totalEpisodes - 1, numFrames))
    /\ InFrameLoop => FramesOf(episode_idx) = [i \in 1..frame_idx |-> i - 1]
    /\ pc = "afterEpisode" => FramesOf(episode_idx) = [i \in 1..numFrames |-> i - 1]

C9_Witness ==
    /\ pc = "afterEpisode"
    /\ numFrames = MaxFrames
    /\ lastPause = <<episode_idx, 1>>
    /\ ~is_paused
    /\ ~should_stop
    /\ failure.kind = "none"

\* The listener of replay_all_episodes left on end-of-input with the run
\* unpaused and not stopped.
QuietEof == variant = "all" /\ lexit = "eof" /\ ~is_paused /\ ~should_stop

C11_SkipAbandonsEpisode ==
    (/\ lexit = "skip"
     /\ lexitAt # NoPosition
     /\ pc = "sending"
     /\ episode_idx = lexitAt[2]) => frame_idx <= lexitAt[3]

\* C12 as stated: in RealRobotEpisodeReplayer the listener's reset_robot()
\* is never inside send_action while the playback loop is inside send_action
\* for an episode frame.
C12_SendsExclusive ==
    ~(variant = "real" /\ pc = "sending" /\ lpc = "resetSending")

\* The step in which the listener processes Quit.
QuitRead == lpc = "read" /\ ~should_stop /\ should_stop'

\* The step in which the listener meets end-of-input.
EofRead == lpc = "read" /\ lexit' = "eof"

\* C13: Quit sets should_stop and leaves is_paused alone, and the listener
\* ends with it; the listener also ends on end-of-input; an ended listener
\* reads nothing more and changes nothing; and no listener step, Quit and
\* end-of-input included, moves the controller or makes the run fail.
C13_QuitEndsListener ==
    /\ [][QuitRead => /\ should_stop'
                      /\ is_paused' = is_paused
                      /\ lpc' = "exited"]_vars
    /\ [][EofRead => /\ lpc' = "exited"
                     /\ UNCHANGED flagVars]_vars
    /\ [][lpc = "exited" => /\ lpc' = "exited"
                            /\ UNCHANGED <<nLines, resets>>
                            /\ UNCHANGED flagVars]_vars
    /\ [][Listener => UNCHANGED <<ctlVars, robotVars, failure, outcome, sent>>]_vars

C13_Witness ==
    /\ lexit = "stop"
    /\ lpc = "exited"
    /\ should_stop
    /\ is_paused
    /\ RunReturned
    /\ outcome = "Stopped"

\* C14: Pause negates is_paused and changes nothing else of the program's
\* state; negating twice gives the value back; and is_paused changes only
\* in a Pause or Next step of the listener, so nothing overwrites a toggle.
C14_PauseToggles ==
    /\ [](\A p \in BOOLEAN : TogglePaused(TogglePaused(p)) = p)
    /\ [][input_pause => /\ is_paused' = ~is_paused
                         /\ lpc' = "read"
                         /\ UNCHANGED <<should_stop, ctlVars, robotVars, runHist,
                                        eof, lexit, lexitAt>>]_vars
    /\ [][is_paused' # is_paused => input_pause \/ input_next]_vars

C14_Witness ==
    /\ ~is_paused
    /\ lastPause = <<episode_idx, frame_idx>>
    /\ nLines = 2
    /\ pausedSends = 0
    /\ pc = "sending"

C16_HelpUnknownNoEffect ==
    /\ [](\A line \in Lines :
            Command(line) \in {"Help", "Unknown"} <=>
                \/ line \in {"h", "help", "", "x"}
                \/ line \in {"r", "reset"} /\ variant # "real")
    /\ [][(input_help \/ input_unknown) =>
            /\ UNCHANGED <<flagVars, ctlVars, robotVars, histVars, eof, lexit>>
            /\ lpc' = "read"]_vars

C16_Witness ==
    /\ nLines = MaxLines
    /\ lpc = "read"
    /\ ~is_paused
    /\ ~should_stop
    /\ lastPause = <<-1, -1>>
    /\ resets = <<>>
    /\ RunReturned
    /\ outcome = "Completed"

\* replay_all_episodes is configured with a start episode at or past the
\* episode count, or past the end episode once defaulted and clamped.
RejectedConfig ==
    LET last == totalEpisodes - 1
        end_ep == IF cfgEnd >= 0 THEN Min(cfgEnd, last) ELSE last
    IN  /\ variant = "all"
        /\ (cfgStart >= totalEpisodes \/ cfgStart > end_ep)

\* C17: with such a range replay_all_episodes enters no episode, sends
\* nothing and never starts the listener; once the robot is connected and
\* the dataset loaded, setup raises the range error, the run reports the
\* error, and the robot is disconnected exactly once.
C17_RangeErrorAborts ==
    RejectedConfig =>
        /\ startedEps = <<>>
        /\ sent = <<>>
        /\ lpc = "off"
        /\ nLines = 0
        /\ disconnectCalls <= 1
        /\ (RunReturned /\ connectResult = "ok") =>
               /\ failure.kind \in {"dataset", "range"}
               /\ outcome = "Error"
               /\ disconnectCalls = 1
               /\ ~is_connected

C17_Witness ==
    /\ RejectedConfig
    /\ cfgStart < totalEpisodes
    /\ failure.kind = "range"
    /\ RunReturned
    /\ disconnectCalls = 1

\* C18: the wait after a frame that took dt_s is 1/fps - dt_s when
\* dt_s < 1/fps and 0 otherwise, never negative; the frame index goes up by
\* exactly one per frame; and the next frame starts when that wait ends,
\* so right after an overrunning frame, and its own wait is computed from
\* its own dt_s alone.
C18_FrameDelay ==
    /\ [](frame_idx > 0 =>
            /\ sleep_time = (IF dt_s < TargetPeriod(fps)
                             THEN TargetPeriod(fps) - dt_s ELSE 0)
            /\ sleep_time >= 0)
    /\ [][frame_idx' # frame_idx => frame_idx' = frame_idx + 1]_vars
    /\ [][(pc = "frameStart" /\ pc' = "frameWork" /\ frame_idx > 0) =>
            /\ start_frame_t' = start_frame_t + dt_s + sleep_time
            /\ dt_s >= TargetPeriod(fps) => start_frame_t' = start_frame_t + dt_s]_vars

C18_Witness ==
    /\ variant = "demo"
    /\ pc = "afterEpisode"
    /\ frame_idx = 2
    /\ dt_s < TargetPeriod(fps)
    /\ sleep_time > 0
    /\ start_frame_t > TargetPeriod(fps)
    /\ clock = start_frame_t + TargetPeriod(fps)

\* The controller is in the pause loop and has to stay there.
HeldByPause == is_paused /\ ~should_stop /\ pc \in {"pauseWait", "pauseSleep"}

\* C19 as stated: no frame send begins while is_paused is true and
\* should_stop is false.
C19_NoSendWhilePaused == pausedSends = 0

\* C19 amended: while is_paused stays true and should_stop is false the
\* playback loop begins at most one frame send (the frame whose pause test it
\* had passed when the flag was set); once it is in the pause loop it
\* stays there, sends nothing and keeps its frame index.
C19_AtMostOneSendWhilePaused ==
    /\ [](pausedSends <= 1)
    /\ [][HeldByPause => /\ pc' \in {"pauseWait", "pauseSleep"}
                         /\ UNCHANGED <<episode_idx, frame_idx, sent>>]_vars

C19_Witness ==
    /\ pausedSends = 1
    /\ is_paused
    /\ ~should_stop
    /\ pc = "pauseSleep"
    /\ lastPause = <<episode_idx, frame_idx>>
    /\ frame_idx = 1

\* Quit was read while the controller was in the pause loop of a paused replay.
QuitInPauseLoop == lexit = "stop" /\ lexitAt[1] = "pausing" /\ is_paused

\* C20: when Quit is read while the controller waits in the pause loop
\* before frame f of episode e, the controller leaves the loop for the
\* summary and the cleanup only: frame f and every later frame stay unsent,
\* e stays the last episode started, the run returns, and it reports
\* Stopped with is_paused still true.
C20_QuitLeavesPauseLoop ==
    /\ [](QuitInPauseLoop =>
            /\ pc \in {"pauseWait", "pauseSleep", "stopRecheck", "report", "finally",
                        "homeSend", "homeSending", "disconnect", "done"}
            /\ episode_idx = lexitAt[2]
            /\ frame_idx = lexitAt[3]
            /\ FramesOf(episode_idx) = [i \in 1..frame_idx |-> i - 1]
            /\ \A i \in DOMAIN FramePairs : FramePairs[i][1] <= episode_idx
            /\ startedEps[Len(startedEps)] = episode_idx
            /\ outcome \in {"none", "Stopped"}
            /\ RunReturned => outcome = "Stopped" /\ disconnectCalls = 1)
    /\ (QuitInPauseLoop ~> RunReturned)

C20_Witness ==
    /\ QuitInPauseLoop
    /\ variant = "all"
    /\ lexitAt = <<"pausing", 0, 1>>
    /\ end_episode = 1
    /\ RunReturned
    /\ outcome = "Stopped"
    /\ is_paused

(***************************************************************************)
(* Claims C21 - C30                                                        *)
(***************************************************************************)

\* The controller waits for the operator between two episodes.
OperatorWait == pc \in {"advCheck", "advSleep"}

\* Quit was read while the controller waited for the operator.
QuitInOperatorWait == lexit = "stop" /\ lexitAt[1] = "waiting"

C21_WitnessAdvance ==
    /\ ~autoAdvance
    /\ variant = "all"
    /\ ~should_stop
    /\ startedEps = <<0, 1>>
    /\ nLines > 0
    /\ pc = "sending"

\* The listener has set should_stop in a run of replay_all_episodes.
StopRequested == variant = "all" /\ should_stop

\* C22: in replay_all_episodes, once the listener has set should_stop the
\* controller leaves the frame loop, the pause loop and the wait between
\* episodes (with or without auto_advance), and robot.disconnect() is
\* called: the run returns with exactly one disconnect.  Every send, sleep
\* and load returns (weak fairness of the controller's steps).
C22_StopReachesDisconnect ==
    /\ StopRequested ~> (RunReturned /\ disconnectCalls = 1)
    /\ [](StopRequested /\ RunReturned => disconnectCalls = 1 /\ ~is_connected)

\* Quit was read during the wait for the operator with the replay paused,
\* and the run has returned after its disconnect.
C22_Witness ==
    /\ StopRequested
    /\ ~autoAdvance
    /\ QuitInOperatorWait
    /\ is_paused
    /\ RunReturned
    /\ disconnectCalls = 1
    /\ ~is_connected

\* The listener of replay_with_real_robot left on end-of-input and no Quit
\* was read.
RealEof == variant = "real" /\ lexit = "eof" /\ ~should_stop

\* C23 as stated: in replay_with_real_robot end-of-input only ends the
\* listener; the run is not aborted by it, so a run that returns without
\* Quit, and with no failure other than the end of input, has sent every
\* frame of the range and reports Completed.
C23_EofOnlyEndsListener ==
    (RealEof /\ RunReturned /\ failure.kind \in {"none", "eofConfirm"}) =>
        /\ failure.kind = "none"
        /\ outcome = "Completed"
        /\ FramePairs = LexOrder(cfgStart, end_episode, numFrames)

\* C24 as stated: in replay_all_episodes, once the controller has sent a
\* frame of episode e (no send failed, and it is not already inside the next
\* send), the shared current_episode equals e.
C24_CurrentEpisodeTracksSends ==
    (variant = "all" /\ FramePairs # <<>> /\ pc # "sending" /\ failure.kind = "none") =>
        current_episode = FramePairs[Len(FramePairs)][1]

\* C25 as stated: no controller step changes is_paused or should_stop, and
\* no listener step calls robot.send_action.
C25_SeparateWriters ==
    [][/\ Controller => UNCHANGED flagVars
       /\ Listener => UNCHANGED <<sent, resets>>]_vars

\* The frame whose delay was computed last had waited in the pause loop (and
\* the work of the next frame is not done yet).
LastFramePaused ==
    /\ frame_idx > 0
    /\ lastPause = <<episode_idx, frame_idx - 1>>
    /\ pc # "frameWait"

\* C26: the time spent in the pause loop before a frame is not part of the
\* elapsed time of that frame.  start_frame_t is read when the pause loop is
\* over, so when the frame's work begins no time has elapsed yet, however
\* long the pause was; and the measured dt_s of a paused frame is the time
\* its send and processing took, so its delay is the delay of the same frame
\* without the pause.
C26_PauseNotCounted ==
    /\ pc = "frameWork" => start_frame_t = clock
    /\ pc \in {"frameWork", "frameWait"} => ~(start_frame_t < clock - MaxElapsed)
    /\ LastFramePaused =>
          /\ dt_s = work_t
          /\ sleep_time = FrameDelay(variant, fps, work_t)

\* A frame that waited in the pause loop for the longest time modelled, a
\* time that alone exceeds the frame period, still got a delay.
C26_Witness ==
    /\ LastFramePaused
    /\ pc = "afterEpisode"
    /\ fps = 3
    /\ clock = MaxPause + TargetPeriod(fps)
    /\ work_t = 1
    /\ sleep_time = 1

\* The send of a Reset raised and the listener is in reset_robot's handler.
ResetFailed == variant = "real" /\ lpc = "resetFailed"

\* C27: in replay_with_real_robot an error raised while a Reset is served
\* stays inside the listener.  The step into the handler and the step out of
\* it change neither flag, no controller variable, nothing of the robot and
\* nothing the run records (its outcome and failure included); the step out
\* leads back to reading commands; and while the listener is in the handler
\* should_stop is false and a run that returns without a failure of its own
\* reports Completed.
C27_ResetErrorStaysInListener ==
    /\ [](lpc = "resetFailed" =>
            /\ variant = "real"
            /\ ~should_stop
            /\ resets # <<>>
            /\ RunReturned /\ failure.kind = "none" => outcome = "Completed")
    /\ [][(lpc' # lpc /\ (lpc = "resetFailed" \/ lpc' = "resetFailed")) =>
            /\ UNCHANGED <<flagVars, ctlVars, robotVars, runHist, lexit>>
            /\ lpc = "resetFailed" => lpc' = "read"]_vars

\* The send of a Reset raised, and the run has sent every frame and returned
\* Completed.
C27_Witness ==
    /\ ResetFailed
    /\ RunReturned
    /\ outcome = "Completed"
    /\ failure.kind = "none"
    /\ ~is_paused
    /\ FramePairs = LexOrder(cfgStart, end_episode, numFrames)
    /\ Len(FramePairs) > 0

\* setup_robot_and_dataset of replay_all_episodes returned: the listener is
\* only started after it.
SetupSucceeded == variant = "all" /\ lpc # "off"

\* C28 as stated: in replay_all_episodes, whenever setup succeeds the range
\* satisfies 0 <= start <= end < num_episodes, whatever start_episode and
\* end_episode were configured, and every episode whose playback is started
\* has an index in 0 .. num_episodes - 1.
C28_RangeWithinDataset ==
    SetupSucceeded =>
        /\ 0 <= current_episode
        /\ current_episode <= end_episode
        /\ end_episode < totalEpisodes
        /\ \A i \in DOMAIN startedEps :
              0 <= startedEps[i] /\ startedEps[i] < totalEpisodes

\* C29 as stated: in replay_all_episodes the frame period used for pacing is
\* 1 / cfg.dataset.fps: the delay after a frame is that period less the
\* measured dt_s, or nothing when dt_s exceeds it.
C29_PeriodFromConfiguredFps ==
    (variant = "all" /\ frame_idx > 0) =>
        sleep_time = Max(TargetPeriod(cfg_fps) - dt_s, 0)

\* C30: in replay_all_episodes, after should_stop became true at most one
\* more send begins.  It is the send of the frame the playback loop was at
\* when Quit was read, a frame of the episode then in progress, and it is
\* the last send of the run; no episode is started after the one Quit met,
\* and no frame of a later episode is ever sent.
C30_OneMoreSendOfSameEpisode ==
    (variant = "all" /\ should_stop) =>
        /\ lexit = "stop"
        /\ Cardinality(SentAfterStop) <= 1
        /\ \A i \in SentAfterStop :
              /\ sent[i].kind = "frame"
              /\ lexitAt = <<"playing", sent[i].ep, sent[i].fr>>
              /\ i = Len(sent)
              /\ startedEps[Len(startedEps)] = sent[i].ep
        /\ \A i \in DOMAIN sent : sent[i].ep <= lexitAt[2]
        /\ \A i \in DOMAIN startedEps : startedEps[i] <= lexitAt[2]

\* Quit was read while the send of frame 0 of episode 0 was about to begin,
\* with more frames and another episode to play; that frame was sent and
\* nothing after it.
C30_Witness ==
    /\ variant = "all"
    /\ should_stop
    /\ SentAfterStop = {1}
    /\ sent[1].ep = 0 /\ sent[1].fr = 0
    /\ numFrames > 1
    /\ end_episode > 0
    /\ RunReturned
    /\ outcome = "Stopped"

(***************************************************************************)
(* Claims C31 - C37                                                        *)
(***************************************************************************)

\* C31: while is_paused is true and should_stop false, at most one frame
\* send has begun since is_paused became true; once it has, the playback
\* loop is never again at the point of sending; and when the loop waits in
\* the pause loop before frame f, the frames of its episode sent so far are
\* exactly 0 .. f-1.
C31_OneSendThenBlocked ==
    (is_paused /\ ~should_stop) =>
        /\ pausedSends <= 1
        /\ pausedSends = 1 => pc # "send"
        /\ pausedSends = 1 => FramePairs # <<>>
        /\ pc \in {"pauseWait", "pauseSleep"} =>
              FramesOf(episode_idx) = [i \in 1..frame_idx |-> i - 1]

\* Pause was read after the pause test of frame 0: frame 0 was sent with
\* is_paused true and the loop now waits before frame 1.
C31_Witness ==
    /\ is_paused /\ ~should_stop
    /\ pausedSends = 1
    /\ variant = "demo"
    /\ pc = "pauseSleep"
    /\ frame_idx = 1
    /\ Len(sent) = 1

\* The listener has ended on end-of-input or Skip with the replay paused and
\* not stopped.
ListenerGonePaused ==
    /\ lpc = "exited"
    /\ lexit \in {"eof", "skip"}
    /\ is_paused
    /\ ~should_stop

\* The controller is in a loop that only a change of the flags ends.
WaitingOnFlags == pc \in {"pauseWait", "pauseSleep", "advCheck", "advSleep"}

\* C32 as stated: once the listener has ended with the replay paused and not
\* stopped, the controller never reaches the summary, the cleanup or the
\* disconnect (taken here for runs in which Pause was read during playback,
\* before a frame send, and no call of the controller failed).
C32_NeverReachesCleanup ==
    (ListenerGonePaused /\ pausedSends = 1 /\ failure.kind = "none") =>
        /\ pc \notin {"report", "finally", "homeSend", "homeSending", "disconnect", "done"}
        /\ cleanups = 0
        /\ disconnectCalls = 0

\* C32 amended: once the listener has ended with the replay paused and not
\* stopped, the flags never change again; a controller that is in the pause
\* loop of a frame or in the wait between episodes stays in it, sends
\* nothing, starts nothing and never reaches the cleanup; and before it gets
\* there it has begun at most one frame send since is_paused was set.
C32_StrandedOnceWaiting ==
    /\ [][ListenerGonePaused => ListenerGonePaused']_vars
    /\ [][(ListenerGonePaused /\ WaitingOnFlags) =>
            /\ WaitingOnFlags'
            /\ UNCHANGED <<episode_idx, frame_idx, sent, startedEps, cleanups,
                           disconnectCalls, outcome, robotVars>>]_vars
    /\ [](ListenerGonePaused => pausedSends <= 1)

\* Skip ended the listener of a paused replay and the controller sits in the
\* pause loop before the second frame, one frame having gone out after Pause.
C32_Witness ==
    /\ ListenerGonePaused
    /\ lexit = "skip"
    /\ pc = "pauseSleep"
    /\ lastPause = <<episode_idx, frame_idx>>
    /\ frame_idx = 1
    /\ pausedSends = 1
    /\ cleanups = 0

\* C33: once Skip has been processed the listener has ended and stays ended:
\* it reads no further line, so no later Quit sets should_stop, no later
\* Pause or Next changes is_paused and no later Reset sends, for the rest of
\* the run.
C33_NothingAfterSkip ==
    /\ [](lexit = "skip" => lpc = "exited" /\ ~should_stop)
    /\ [][lexit = "skip" =>
            /\ lexit' = "skip"
            /\ UNCHANGED <<is_paused, should_stop, nLines, resets, lexitAt>>]_vars

\* Skip was the first line read; the run was played to its end with lines
\* still to come and both flags as Skip left them.
C33_Witness ==
    /\ lexit = "skip"
    /\ nLines = 1
    /\ ~is_paused /\ ~should_stop
    /\ RunReturned
    /\ outcome = "Completed"
    /\ Len(FramePairs) = MaxEpisodes * MaxFrames

\* C34 as stated: in replay_with_real_robot no send_action call begins
\* after robot.disconnect() was called, whether by the controller or by a
\* Reset that the listener serves.
C34_NoSendAfterDisconnect ==
    variant = "real" =>
        /\ \A i \in DOMAIN sent : ~sent[i].disc
        /\ \A i \in DOMAIN resets : ~resets[i].disc

\* C35 as stated: in replay_with_real_robot the controller's read at the
\* safety prompt never returns a command line; every command the operator
\* types goes to the listener, so a Quit line always sets should_stop.
C35_PromptTakesNoCommand ==
    /\ confirm_line \in {"none", "Unknown"}
    /\ confirm_line = "Quit" => should_stop

\* The home-position sends of the cleanup.
HomeSends == {i \in DOMAIN sent : sent[i].kind = "home"}

\* C36: in replay_with_real_robot the cleanup sends the home position at
\* most once, as the controller's last send and before the disconnect; the
\* disconnect is never called without it; and every run that connected the
\* robot returns with exactly one home-position send followed by exactly one
\* disconnect, whether it completed, was stopped, met a send failure or
\* another exception, and whether or not the home-position send failed.
C36_HomeThenDisconnect ==
    variant = "real" =>
        /\ Cardinality(HomeSends) <= 1
        /\ \A i \in HomeSends : i = Len(sent) /\ ~sent[i].disc
        /\ HomeSends # {} => cleanups = 1
        /\ (pc = "disconnect" \/ disconnectCalls > 0) => Cardinality(HomeSends) = 1
        /\ pc \in {"homeSend", "homeSending"} => disconnectCalls = 0 /\ is_connected
        /\ (RunReturned /\ connectResult = "ok") =>
              /\ Cardinality(HomeSends) = 1
              /\ disconnectCalls = 1
              /\ ~is_connected
              /\ outcome \in {"Completed", "Stopped", "Error"}

\* A run that met a send failure on its first frame returned after the
\* home-position send and the disconnect.
C36_Witness ==
    /\ variant = "real"
    /\ RunReturned
    /\ failure.kind = "send"
    /\ Len(sent) = 2
    /\ HomeSends = {2}
    /\ disconnectCalls = 1
    /\ ~is_connected

\* C37 as stated: in replay_all_episodes a run is reported as stopped by the
\* user only if some frame of the range was not sent; a run that sent every
\* frame of every episode of the range is reported Completed, whenever Quit
\* was read.
C37_StoppedOnlyIfFramesUnsent ==
    (variant = "all" /\ outcome = "Stopped" /\ failure.kind = "none") =>
        FramePairs # LexOrder(current_episode, end_episode, numFrames)

====
